---- MODULE Spec2Model ----
(***************************************************************************)
(* A model of metadater.py: the coordinate converter, the three source     *)
(* extractors, the reconciliation loop and the writer of process_one_file, *)
(* and the batch driver process_files.                                     *)
(*                                                                         *)
(* Representation.                                                         *)
(*  - An Optional value is a sequence: None is <<>>, a present v is <<v>>. *)
(*  - An angle is an integer number of ticks; there are TicksPerSec ticks  *)
(*    in a second of arc, so a decimal degree value x is the integer       *)
(*    x * DEG.  A DMS triple is <<degrees, minutes, seconds-in-ticks>>,    *)
(*    the seconds to the nearest tick.                                     *)
(*  - A datetime is [wall, aware]: the wall-clock reading in milliseconds  *)
(*    and whether it carries the UTC timezone.                             *)
(*  - A file name is a sequence of tokens, each standing for one piece of  *)
(*    text; "." is the dot.                                                *)
(***************************************************************************)
EXTENDS Integers, Sequences, FiniteSets, TLC

VARIABLES
    strategies,   \* args.strategies
    formats,      \* args.nameformat
    inDir,        \* what in_dir is on disk: "missing", "file" or "dir"
    outDir,       \* what out_dir is on disk
    phase,        \* where process_files is
    cur,          \* the entry last handed to process_one_file
    res,          \* what process_one_file did with it
    cIn,          \* coords_dec2dms: the decimal coordinates given
    cDms,         \* coords_dec2dms: the DMS form returned
    cOut,         \* coords_dms2dec: the decimal form returned
    cpc           \* position in the conversion there and back

vars == <<strategies, formats, inDir, outDir, phase, cur, res,
          cIn, cDms, cOut, cpc>>

mainVars == <<strategies, formats, inDir, outDir, phase, cur, res>>
coordVars == <<cIn, cDms, cOut, cpc>>

(***************************************************************************)
(* Bounds of the model and constants of the program.                       *)
(***************************************************************************)
MaxStrategies == 3
TicksPerSec == 2
TzOffsetSec == 1

SixtyC == 60
SecPerDeg == 3600
MsPerSec == 1000
MantissaBits == 52

MIN == SixtyC * TicksPerSec        \* ticks in a minute of arc
DEG == SecPerDeg * TicksPerSec     \* ticks in a degree

None == <<>>
Some(v) == <<v>>
Abs(x) == IF x >= 0 THEN x ELSE -x

\* Python's `a or b` on Optional datetimes and Optional coordinate tuples:
\* a datetime and a non-empty tuple are truthy, None is falsy.
PyOr(a, b) == IF a # None THEN a ELSE b

(***************************************************************************)
(* Coordinate converter                                                    *)
(***************************************************************************)
\* a converter that forgets the hemisphere
Dms2DecOneUnsigned(c, pos) ==
    c[1][1] * DEG + (c[1][2] * DEG) \div SixtyC + c[1][3]

Dms2DecOne(c, pos) ==
    \* deg + min / 60 + sec / 3600, in ticks (a second is TicksPerSec ticks)
    LET v == c[1][1] * DEG + (c[1][2] * DEG) \div SixtyC + c[1][3]
    IN  v * (IF c[2] = pos THEN 1 ELSE -1)

coords_dms2dec(coords) ==
    <<Dms2DecOne(coords[1], "N"), Dms2DecOne(coords[2], "E")>>

(***************************************************************************)
(* coords_dec2dms works on floats (IEEE doubles).  The decimal value of a  *)
(* ticks over DEG is the double X nearest to a / DEG, and (abs - d) * 60   *)
(* is a rounded product.  Where a is a whole number M >= 1 of minutes past *)
(* the degree, X can lie below a / DEG far enough for the product to round *)
(* below M: then int() gives M - 1 minutes and the seconds come out just   *)
(* under 60, which is 60 * TicksPerSec when expressed in ticks.  Anywhere  *)
(* else the rounding errors are far smaller than a tick and change no      *)
(* integer part.  The definitions below decide this with the integer       *)
(* arithmetic of the rounding.                                             *)
(***************************************************************************)
RECURSIVE Pow2(_)
Pow2(k) == IF k = 0 THEN 1 ELSE 2 * Pow2(k - 1)

RECURSIVE Pow2Mod(_, _)
Pow2Mod(k, n) == IF k = 0 THEN 1 % n ELSE (2 * Pow2Mod(k - 1, n)) % n

\* the exponent of the double a / DEG: the largest e with 2^e <= a / DEG
RECURSIVE ExpAbove(_, _)
ExpAbove(a, e) == IF DEG * Pow2(e + 1) <= a THEN ExpAbove(a, e + 1) ELSE e
RECURSIVE ExpBelow(_, _)
ExpBelow(a, j) == IF a * Pow2(j) < DEG THEN ExpBelow(a, j + 1) ELSE -j
Exponent(a) == IF a >= DEG THEN ExpAbove(a, 0) ELSE ExpBelow(a, 1)

\* the exponent of the doubles just under the whole number M >= 1
RECURSIVE ExpUnderFrom(_, _)
ExpUnderFrom(M, j) == IF Pow2(j + 1) < M THEN ExpUnderFrom(M, j + 1) ELSE j
ExpUnder(M) == IF M > 1 THEN ExpUnderFrom(M, 0) ELSE -1

\* how far the double X lies from a / DEG, counted in 1 / (DEG * 2^k) where
\* 2^-k is the spacing of the doubles at X; below DEG / 2, X is the lower one
Remainder(a) ==
    ((a % DEG) * Pow2Mod(MantissaBits - Exponent(a), DEG)) % DEG

\* int((abs - d) * 60) is one less than the whole number of minutes of a
MinuteLost(a) ==
    LET rem == a % DEG
        r == Remainder(a)
        ex == 1 + Exponent(a) - ExpUnder(rem \div MIN)
    IN  /\ rem # 0
        /\ rem % MIN = 0
        /\ 0 < r /\ 2 * r < DEG
        /\ IF ex >= 0 THEN SixtyC * r * Pow2(ex) > DEG
                      ELSE SixtyC * r > DEG * Pow2(-ex)

Dec2DmsOne(x, pos, neg) ==
    LET o == IF x >= 0 THEN pos ELSE neg
        d == Abs(x) \div DEG
        \* int((abs - d) * 60)
        m == ((Abs(x) - d * DEG) * SixtyC) \div DEG
                 - (IF MinuteLost(Abs(x)) THEN 1 ELSE 0)
        \* ((abs - d) * 60 - m) * 60, in seconds, then to the nearest tick
        s == (((Abs(x) - d * DEG) * SixtyC - m * DEG) * SixtyC) \div SecPerDeg
    IN  <<<<d, m, s>>, o>>

coords_dec2dms(coords) ==
    <<Dec2DmsOne(coords[1], "N", "S"), Dec2DmsOne(coords[2], "E", "W")>>

(***************************************************************************)
(* Dates                                                                   *)
(***************************************************************************)
TzOffsetMs == TzOffsetSec * MsPerSec

\* datetime.fromtimestamp(ms / 1000): a naive local wall-clock reading
FromTimestampLocal(ms) == [wall |-> ms + TzOffsetMs, aware |-> FALSE]

\* datetime.fromtimestamp(sec, timezone.utc)
FromTimestampUtc(sec) == [wall |-> sec * MsPerSec, aware |-> TRUE]

\* datetime.timestamp(), in milliseconds: naive readings are local time
Timestamp(d) == IF d.aware THEN d.wall ELSE d.wall - TzOffsetMs

\* date.strftime(DATETIME_STR_FORMAT): whole seconds of the wall clock, and
\* neither the sub-second part nor the timezone
Strftime(d) == [kind |-> "text", v |-> d.wall \div MsPerSec]

\* datetime.strptime(text, DATETIME_STR_FORMAT), for a field that matches
StrptimeExif(f) == [wall |-> f.v * MsPerSec, aware |-> FALSE]

(***************************************************************************)
(* Embedded-metadata extractor                                             *)
(*                                                                         *)
(* A container field is Optional; absent fields raise AttributeError when  *)
(* read.  The datetime field is [kind, v]: kind "int" is an integer        *)
(* string (v milliseconds), "text" a string in DATETIME_STR_FORMAT (v      *)
(* seconds of wall clock), "bad" any other string.  A GPS value is         *)
(* [tuple, v]: whether it is a tuple, and the value.                       *)
(***************************************************************************)
ExifDate(image) ==
    IF image.datetime = None
    THEN [exc |-> "none", date |-> None]            \* AttributeError: pass
    ELSE LET f == image.datetime[1] IN
         CASE f.kind = "int"  ->
                [exc |-> "none", date |-> Some(FromTimestampLocal(f.v))]
           [] f.kind = "text" ->
                [exc |-> "none", date |-> Some(StrptimeExif(f))]
           \* int() and strptime() both raise ValueError; the inner clause
           \* `except AttributeError or ValueError` is `except AttributeError`
           [] OTHER -> [exc |-> "ValueError", date |-> None]

ExifLocation(image) ==
    IF image.gps_latitude = None THEN None           \* AttributeError: pass
    ELSE IF ~image.gps_latitude[1].tuple THEN None
    ELSE IF image.gps_longitude = None THEN None     \* AttributeError: pass
    ELSE IF ~image.gps_longitude[1].tuple THEN None
    ELSE IF image.gps_latitude_ref = None \/ image.gps_longitude_ref = None
         THEN None                                   \* AttributeError: pass
    ELSE Some(<< <<image.gps_latitude[1].v, image.gps_latitude_ref[1]>>,
                 <<image.gps_longitude[1].v, image.gps_longitude_ref[1]>> >>)

get_info_from_exif(image) ==
    IF ~image.has_exif
    THEN [exc |-> "none", date |-> None, location |-> None]
    ELSE LET d == ExifDate(image) IN
         IF d.exc # "none"
         THEN [exc |-> d.exc, date |-> None, location |-> None]
         ELSE [exc |-> "none", date |-> d.date,
               location |-> ExifLocation(image)]

(***************************************************************************)
(* Sidecar-JSON extractor                                                  *)
(*                                                                         *)
(* A sidecar is [exists, decodable, timestamp, latitude, longitude], the   *)
(* three values Optional: a missing key raises KeyError.                   *)
(***************************************************************************)
\* a sidecar extractor that treats a malformed sidecar as "not found"
get_info_from_json_lenient(file) ==
    LET j == file.sidecar IN
    IF \/ ~j.exists \/ ~j.decodable
       \/ j.timestamp = None \/ j.latitude = None \/ j.longitude = None
    THEN [exc |-> "none", date |-> None, location |-> None]
    ELSE LET location == <<j.latitude[1], j.longitude[1]>> IN
         [exc |-> "none",
          date |-> Some(FromTimestampUtc(j.timestamp[1])),
          location |-> IF location # <<0, 0>>
                       THEN Some(coords_dec2dms(location)) ELSE None]

\* a sidecar extractor whose sentinel is a zero in either component
get_info_from_json_anyZero(file) ==
    LET j == file.sidecar IN
    IF ~j.exists THEN [exc |-> "none", date |-> None, location |-> None]
    ELSE IF ~j.decodable
         THEN [exc |-> "JSONDecodeError", date |-> None, location |-> None]
    ELSE IF j.timestamp = None \/ j.latitude = None \/ j.longitude = None
         THEN [exc |-> "KeyError", date |-> None, location |-> None]
    ELSE LET location == <<j.latitude[1], j.longitude[1]>> IN
         [exc |-> "none",
          date |-> Some(FromTimestampUtc(j.timestamp[1])),
          location |-> IF location[1] # 0 /\ location[2] # 0
                       THEN Some(coords_dec2dms(location)) ELSE None]

get_info_from_json(file) ==
    LET j == file.sidecar IN
    IF ~j.exists THEN [exc |-> "none", date |-> None, location |-> None]
    ELSE IF ~j.decodable
         THEN [exc |-> "JSONDecodeError", date |-> None, location |-> None]
    ELSE IF j.timestamp = None \/ j.latitude = None \/ j.longitude = None
         THEN [exc |-> "KeyError", date |-> None, location |-> None]
    ELSE LET location == <<j.latitude[1], j.longitude[1]>> IN
         [exc |-> "none",
          date |-> Some(FromTimestampUtc(j.timestamp[1])),
          location |-> IF location # <<0, 0>>
                       THEN Some(coords_dec2dms(location)) ELSE None]

(***************************************************************************)
(* File names (pathlib) and the filename-pattern extractor                 *)
(***************************************************************************)
\* str.rfind("."): the last position of the dot, 0 when there is none
RFindDot(name) ==
    LET S == {i \in 1..Len(name) : name[i] = "."}
    IN  IF S = {} THEN 0 ELSE CHOOSE i \in S : \A k \in S : k <= i

\* PurePath.suffix: from the last dot, unless it leads or ends the name
Suffix(name) ==
    LET i == RFindDot(name)
    IN  IF 1 < i /\ i < Len(name) THEN SubSeq(name, i, Len(name)) ELSE <<>>

\* PurePath.stem
Stem(name) ==
    LET i == RFindDot(name)
    IN  IF 1 < i /\ i < Len(name) THEN SubSeq(name, 1, i - 1) ELSE name

StartsWithDot(name) == Len(name) > 0 /\ name[1] = "."

\* A format is [len, text, wall]: the length of what strftime(fstr) prints,
\* the only text strptime(., fstr) accepts here, and the date it then returns.
FormatF1 == [len |-> 1, text |-> <<"IMG1">>, wall |-> 3 * MsPerSec]
FormatF2 == [len |-> 2, text |-> <<"IMG1", "x">>, wall |-> 4 * MsPerSec]
FormatOf(fstr) == IF fstr = "F1" THEN FormatF1 ELSE FormatF2

Truncate(s, n) == SubSeq(s, 1, IF Len(s) < n THEN Len(s) ELSE n)

RECURSIVE FilenameDate(_, _, _)
FilenameDate(stem, fmts, i) ==
    IF i > Len(fmts) THEN None
    ELSE LET f == FormatOf(fmts[i])
             file_stem_short == Truncate(stem, f.len)
         IN  IF file_stem_short = f.text
             THEN Some([wall |-> f.wall, aware |-> FALSE])   \* break
             ELSE FilenameDate(stem, fmts, i + 1)            \* continue

get_info_from_filename(file, fmts) ==
    [exc |-> "none", date |-> FilenameDate(Stem(file.name), fmts, 1),
     location |-> None]

(***************************************************************************)
(* The metadata container (exif.Image)                                     *)
(*                                                                         *)
(* The bytes of a file are [ok, has_exif, datetime, gps_*]: whether        *)
(* Image() can parse them, and the metadata block they hold.               *)
(***************************************************************************)
\* Image(fo): the container opened from the bytes, the id-th of this file
ImageOpen(bytes, id) ==
    [id |-> id, has_exif |-> bytes.has_exif, datetime |-> bytes.datetime,
     gps_latitude |-> bytes.gps_latitude,
     gps_latitude_ref |-> bytes.gps_latitude_ref,
     gps_longitude |-> bytes.gps_longitude,
     gps_longitude_ref |-> bytes.gps_longitude_ref]

\* image.get_file(): the container serialized
get_file(image) ==
    [ok |-> TRUE, has_exif |-> image.has_exif, datetime |-> image.datetime,
     gps_latitude |-> image.gps_latitude,
     gps_latitude_ref |-> image.gps_latitude_ref,
     gps_longitude |-> image.gps_longitude,
     gps_longitude_ref |-> image.gps_longitude_ref]

(***************************************************************************)
(* Reconciliation: the strategy loop of process_one_file                   *)
(***************************************************************************)

\* str.lower() on the strategy names of the model
Lower(s) ==
    CASE s = "EXIF" -> "exif"
      [] OTHER -> s

\* a loop that walks the list in the order given
ReversedNot(s) == s

Reversed(s) == [i \in 1..Len(s) |-> s[Len(s) + 1 - i]]

LoopInit ==
    [date |-> None, location |-> None, image |-> None,
     attempts |-> 0, opens |-> 0, log |-> <<>>, exc |-> "none"]

Call(strategy, r, id) ==
    [strategy |-> strategy, exc |-> r.exc, date |-> r.date,
     location |-> r.location, id |-> id]

\* date = x_date or date; location = x_location or location
Merge(st, strategy, r, id) ==
    IF r.exc # "none"
    THEN [st EXCEPT !.exc = r.exc, !.log = Append(@, Call(strategy, r, id))]
    ELSE [st EXCEPT !.date = PyOr(r.date, @),
                    !.location = PyOr(r.location, @),
                    !.log = Append(@, Call(strategy, r, id))]

\* an exif branch without the try around Image()
ExifBranchUncaught(st, file) ==
    IF ~file.bytes.ok
    THEN [st EXCEPT !.image = None, !.attempts = @ + 1, !.exc = "Exception"]
    ELSE LET id == st.attempts + 1
             image == ImageOpen(file.bytes, id)
             opened == [st EXCEPT !.image = Some(image), !.attempts = id,
                                  !.opens = @ + 1]
         IN  Merge(opened, "exif", get_info_from_exif(image), id)

\* an exif branch that opens the file again for the writer
ExifBranchReopened(st, file) ==
    IF ~file.bytes.ok
    THEN [st EXCEPT !.image = None, !.attempts = @ + 1]
    ELSE LET id == st.attempts + 1
             image == ImageOpen(file.bytes, id)
             opened == [st EXCEPT !.image = Some(ImageOpen(file.bytes, id + 1)),
                                  !.attempts = id + 1, !.opens = @ + 2]
         IN  Merge(opened, "exif", get_info_from_exif(image), id)

ExifBranch(st, file) ==
    IF ~file.bytes.ok
    THEN \* except Exception: image = None; continue
         [st EXCEPT !.image = None, !.attempts = @ + 1]
    ELSE LET id == st.attempts + 1
             image == ImageOpen(file.bytes, id)
             opened == [st EXCEPT !.image = Some(image), !.attempts = id,
                                  !.opens = @ + 1]
         IN  Merge(opened, "exif", get_info_from_exif(image), id)

StrategyStep(st, name, file, fmts) ==
    LET strategy == Lower(name) IN
    CASE strategy = "exif" -> ExifBranch(st, file)
      [] strategy = "json" -> Merge(st, "json", get_info_from_json(file), 0)
      [] strategy = "filename" ->
             Merge(st, "filename", get_info_from_filename(file, fmts), 0)
      [] OTHER -> st

\* for strategy in reversed(strategies): ...; an exception ends the loop
RECURSIVE Loop(_, _, _, _, _)
Loop(order, i, file, fmts, st) ==
    IF i > Len(order) \/ st.exc # "none" THEN st
    ELSE Loop(order, i + 1, file, fmts, StrategyStep(st, order[i], file, fmts))

Reconcile(strats, file, fmts) == Loop(Reversed(strats), 1, file, fmts, LoopInit)

(***************************************************************************)
(* Writer: the rest of process_one_file                                    *)
(***************************************************************************)
\* image.datetime = date.strftime(DATETIME_STR_FORMAT)
SetDate(image, date) ==
    [image EXCEPT !.datetime = Some(Strftime(date)), !.has_exif = TRUE]

\* ((image.gps_latitude, image.gps_latitude_ref),
\*  (image.gps_longitude, image.gps_longitude_ref)) = location
\* The targets are assigned from left to right; the container raises TypeError
\* in the rejectAt-th assignment (0: in none), which ends the statement.
SetGps(image, location, rejectAt) ==
    LET upto == IF rejectAt = 0 THEN 4 ELSE rejectAt - 1 IN
    [image EXCEPT
       !.gps_latitude = IF upto >= 1
                        THEN Some([tuple |-> TRUE, v |-> location[1][1]]) ELSE @,
       !.gps_latitude_ref = IF upto >= 2 THEN Some(location[1][2]) ELSE @,
       !.gps_longitude = IF upto >= 3
                         THEN Some([tuple |-> TRUE, v |-> location[2][1]]) ELSE @,
       !.gps_longitude_ref = IF upto >= 4 THEN Some(location[2][2]) ELSE @,
       !.has_exif = IF upto >= 1 THEN TRUE ELSE @]

WriteDate(st) ==
    IF st.date # None /\ st.image # None
    THEN Some(SetDate(st.image[1], st.date[1])) ELSE st.image

WriteLocation(st, image, rejectAt) ==
    IF st.location # None /\ image # None
    THEN Some(SetGps(image[1], st.location[1], rejectAt)) ELSE image

\* out_file.write_bytes(image.get_file() or in_file.read_bytes())
OutBytes(image, file) ==
    IF image # None THEN get_file(image[1]) ELSE file.bytes

\* os.utime(out_file, (date.timestamp(), date.timestamp()))
Utime(date) ==
    Some([atime |-> Timestamp(date[1]), mtime |-> Timestamp(date[1])])

\* times set only next to the container's date
TouchWithImage(st) ==
    IF st.date # None /\ st.image # None THEN Utime(st.date) ELSE None

\* if date is not None: os.utime(...)
Touch(st) == IF st.date # None THEN Utime(st.date) ELSE None

(***************************************************************************)
(* process_one_file                                                        *)
(***************************************************************************)
NoResult ==
    [outcome |-> "none", exc |-> "none", date |-> None, location |-> None,
     opened |-> None, image |-> None, attempts |-> 0, opens |-> 0,
     log |-> <<>>, typeErrorAt |-> 0, written |-> FALSE, bytes |-> None,
     utime |-> None]

\* a skip rule that lets sidecars through
SkippedNoJson(file) ==
    \/ file.kind # "file"
    \/ StartsWithDot(file.name)

Skipped(file) ==
    \/ file.kind # "file"                      \* not in_file.is_file()
    \/ StartsWithDot(file.name)
    \/ Suffix(file.name) = <<".", "json">>

\* process_one_file after its strategy loop has left st
WriteOut(file, st, rejectAt) ==
    IF st.exc # "none"
    THEN [NoResult EXCEPT !.outcome = "raised", !.exc = st.exc,
                          !.opened = st.image,
                          !.attempts = st.attempts, !.opens = st.opens,
                          !.log = st.log]
    ELSE LET image1 == WriteDate(st)
             image2 == WriteLocation(st, image1, rejectAt)
             tried == st.location # None /\ st.image # None
         IN  [outcome |-> "done", exc |-> "none", date |-> st.date,
              location |-> st.location, opened |-> st.image,
              image |-> image2, attempts |-> st.attempts,
              opens |-> st.opens, log |-> st.log,
              typeErrorAt |-> IF tried THEN rejectAt ELSE 0,
              written |-> TRUE, bytes |-> Some(OutBytes(image2, file)),
              utime |-> Touch(st)]

process_one_file(file, strats, fmts, rejectAt) ==
    IF Skipped(file) THEN [NoResult EXCEPT !.outcome = "skipped"]
    ELSE WriteOut(file, Reconcile(strats, file, fmts), rejectAt)

(***************************************************************************)
(* Inputs                                                                  *)
(***************************************************************************)
StrategyNames == {"exif", "EXIF", "json", "filename", "raw"}

SeqsUpTo(S, n) == UNION {[1..k -> S] : k \in 0..n}

StrategyLists == SeqsUpTo(StrategyNames, MaxStrategies)

FormatLists == {<<"F1">>, <<"F2", "F1">>}

DateInt == Some([kind |-> "int", v |-> 1500])
DateText == Some([kind |-> "text", v |-> 7])
DateBad == Some([kind |-> "bad", v |-> 0])

LatDms == [tuple |-> TRUE, v |-> <<10, 20, 30 * TicksPerSec>>]
LonDms == [tuple |-> TRUE, v |-> <<40, 50, 0>>]
Scalar == [tuple |-> FALSE, v |-> <<10>>]

NoGps == [gps_latitude |-> None, gps_latitude_ref |-> None,
          gps_longitude |-> None, gps_longitude_ref |-> None]

\* a latitude alone, and a latitude that is no tuple
PartGps ==
    {[gps_latitude |-> Some(LatDms), gps_latitude_ref |-> Some("N"),
      gps_longitude |-> None, gps_longitude_ref |-> None],
     [gps_latitude |-> Some(Scalar), gps_latitude_ref |-> Some("N"),
      gps_longitude |-> Some(LonDms), gps_longitude_ref |-> Some("W")]}

Block(ok, has_exif, datetime, g) ==
    [ok |-> ok, has_exif |-> has_exif, datetime |-> datetime,
     gps_latitude |-> g.gps_latitude, gps_latitude_ref |-> g.gps_latitude_ref,
     gps_longitude |-> g.gps_longitude,
     gps_longitude_ref |-> g.gps_longitude_ref]

\* bytes Image() cannot parse, a file with no metadata block, and files with one
Garbage == Block(FALSE, FALSE, None, NoGps)
NoExif == Block(TRUE, FALSE, None, NoGps)
FullBlock == [gps_latitude |-> Some(LatDms), gps_latitude_ref |-> Some("S"),
              gps_longitude |-> Some(LonDms), gps_longitude_ref |-> Some("W")]

\* the contents met under every name: what the three sources can each supply
CoreBytes ==
    {Garbage, NoExif,
     Block(TRUE, TRUE, DateInt, FullBlock), Block(TRUE, TRUE, DateInt, NoGps),
     Block(TRUE, TRUE, None, FullBlock), Block(TRUE, TRUE, DateText, NoGps)}

\* the other metadata blocks: a date field that does not parse, a block with
\* nothing to read, partial GPS fields
EdgeBytes ==
    {Block(TRUE, TRUE, DateBad, FullBlock), Block(TRUE, TRUE, DateBad, NoGps),
     Block(TRUE, TRUE, DateText, FullBlock), Block(TRUE, TRUE, None, NoGps)}
    \cup {Block(TRUE, TRUE, None, g) : g \in PartGps}

Sidecar(exists, decodable, timestamp, latitude, longitude) ==
    [exists |-> exists, decodable |-> decodable, timestamp |-> timestamp,
     latitude |-> latitude, longitude |-> longitude]

NoSidecar == Sidecar(FALSE, FALSE, None, None, None)
LatDec == 40 * DEG + 42 * MIN + 3
LonDec == -(74 * DEG + 1)

Sidecars ==
    {NoSidecar,
     Sidecar(TRUE, FALSE, None, None, None),
     Sidecar(TRUE, TRUE, None, Some(LatDec), Some(LonDec)),
     Sidecar(TRUE, TRUE, Some(2), None, Some(LonDec)),
     Sidecar(TRUE, TRUE, Some(2), Some(0), Some(0)),
     Sidecar(TRUE, TRUE, Some(2), Some(0), Some(LonDec)),
     Sidecar(TRUE, TRUE, Some(2), Some(LatDec), Some(LonDec))}

PlainNames ==
    {<<"IMG1", ".", "jpg">>, <<"IMG1", "x", ".", "jpg">>, <<"x", ".", "jpg">>}

File(kind, name, bytes, sidecar) ==
    [kind |-> kind, name |-> name, bytes |-> bytes, sidecar |-> sidecar]

\* the entries the skip rule is about, and the files with every content
SpecialEntries ==
    {File("dir", <<"x", ".", "jpg">>, Garbage, NoSidecar),
     File("file", <<".", "x", ".", "jpg">>, NoExif, NoSidecar),
     File("file", <<"x", ".", "json">>, Garbage, NoSidecar),
     File("file", <<"x", ".", "jpg", ".", "json">>, Garbage, NoSidecar),
     File("file", <<".", "json">>, Garbage, NoSidecar),
     File("file", <<"x", ".", "gif">>, Garbage, NoSidecar),
     File("file", <<"IMG1", ".", "gif">>, NoExif, NoSidecar),
     File("file", <<"x", ".", "JSON">>, Garbage, NoSidecar)}

Entries ==
    SpecialEntries \cup
    {File("file", n, b, j) : n \in PlainNames, b \in CoreBytes, j \in Sidecars}
    \cup {File("file", <<"x", ".", "jpg">>, b, j) : b \in EdgeBytes, j \in Sidecars}

NoFile == File("none", <<>>, Garbage, NoSidecar)

(***************************************************************************)
(* process_files                                                           *)
(***************************************************************************)
DirStates ==
    {<<"missing", "missing">>, <<"file", "missing">>, <<"dir", "file">>,
     <<"dir", "missing">>, <<"dir", "dir">>}

CoordsOff == cIn = <<0, 0>> /\ cDms = None /\ cOut = None /\ cpc = "off"

Init ==
    /\ strategies \in StrategyLists
    /\ formats \in FormatLists
    /\ \E d \in DirStates : inDir = d[1] /\ outDir = d[2]
    /\ phase = "start"
    /\ cur = NoFile
    /\ res = NoResult
    /\ CoordsOff

\* the checks of process_files that raise before any file is read
Preflight ==
    /\ phase = "start"
    /\ phase' = IF inDir = "missing" THEN "FileNotFoundError"
                ELSE IF inDir # "dir" THEN "ValueError"
                ELSE IF outDir # "missing" /\ outDir # "dir" THEN "ValueError"
                ELSE "running"
    /\ outDir' = IF phase' = "running" THEN "dir" ELSE outDir   \* mkdir
    /\ UNCHANGED <<strategies, formats, inDir, cur, res>>
    /\ UNCHANGED coordVars

\* the container rejections the writer can meet: it sets GPS fields only
\* with a location and an open container
Rejections(st) ==
    IF st.exc = "none" /\ st.location # None /\ st.image # None
    THEN 0..4 ELSE {0}

\* one turn of `for file in in_dir.iterdir()`: process_one_file on the next
\* entry, whatever it is; an exception leaves the loop and process_files
ProcessOneFile ==
    /\ phase = "running"
    /\ \E file \in Entries :
         \E rejectAt \in Rejections(IF Skipped(file) THEN LoopInit
                                    ELSE Reconcile(strategies, file, formats)) :
            /\ cur' = file
            /\ res' = process_one_file(file, strategies, formats, rejectAt)
    /\ phase' = IF res'.outcome = "raised" THEN "aborted" ELSE "returned"
    /\ UNCHANGED <<strategies, formats, inDir, outDir>>
    /\ UNCHANGED coordVars

\* process_one_file has returned: its locals are gone and the loop goes on
\* to the next entry
NextEntry ==
    /\ phase = "returned"
    /\ phase' = "running"
    /\ cur' = NoFile
    /\ res' = NoResult
    /\ UNCHANGED <<strategies, formats, inDir, outDir>>
    /\ UNCHANGED coordVars

\* in_dir.iterdir() has no more entries
Finish ==
    /\ phase = "running"
    /\ phase' = "finished"
    /\ UNCHANGED <<strategies, formats, inDir, outDir, cur, res>>
    /\ UNCHANGED coordVars

Next == Preflight \/ ProcessOneFile \/ NextEntry \/ Finish

Spec == Init /\ [][Next]_vars

(***************************************************************************)
(* The coordinate converter on its own: decimal -> DMS -> decimal          *)
(***************************************************************************)
Magnitudes(degs) ==
    {d * DEG + m * MIN + s : d \in degs, m \in {0, 1, 59}, s \in {0, 1, MIN - 1}}

Signed(S) == S \cup {-x : x \in S}

LatSamples == Signed(Magnitudes({0, 1, 89}) \cup {90 * DEG})
LonSamples == Signed(Magnitudes({0, 1, 179}) \cup {180 * DEG})

InitCoords ==
    /\ strategies = <<>>
    /\ formats = <<"F1">>
    /\ inDir = "dir"
    /\ outDir = "dir"
    /\ phase = "coords"
    /\ cur = NoFile
    /\ res = NoResult
    /\ cIn \in LatSamples \X LonSamples
    /\ cDms = None
    /\ cOut = None
    /\ cpc = "dec"

ToDms ==
    /\ cpc = "dec"
    /\ cDms' = Some(coords_dec2dms(cIn))
    /\ cpc' = "dms"
    /\ UNCHANGED <<cIn, cOut>>
    /\ UNCHANGED mainVars

ToDec ==
    /\ cpc = "dms"
    /\ cOut' = Some(coords_dms2dec(cDms[1]))
    /\ cpc' = "back"
    /\ UNCHANGED <<cIn, cDms>>
    /\ UNCHANGED mainVars

NextCoords == ToDms \/ ToDec

SpecCoords == InitCoords /\ [][NextCoords]_vars

(***************************************************************************)
(* Properties                                                              *)
(***************************************************************************)
\* process_one_file has run on cur
Processed == phase \in {"returned", "aborted"}

\* the strategy a configured name stands for, whatever its letter case
Canon(name) == IF name \in {"exif", "EXIF"} THEN "exif" ELSE name

Requested(strategy) ==
    \E i \in 1..Len(strategies) : Canon(strategies[i]) = strategy

\* the calls of a strategy's extractor that process_one_file made
CallsOf(strategy) ==
    {k \in 1..Len(res.log) : res.log[k].strategy = strategy}

\* what the extractor of a strategy returned for cur; an extractor that was
\* not run (the container could not be opened) returned nothing
Returned(strategy) ==
    IF CallsOf(strategy) = {}
    THEN [date |-> None, location |-> None]
    ELSE LET k == CHOOSE k \in CallsOf(strategy) : TRUE
         IN  [date |-> res.log[k].date, location |-> res.log[k].location]

MinOf(S) == CHOOSE i \in S : \A k \in S : i <= k
MaxOf(S) == CHOOSE i \in S : \A k \in S : k <= i

DateHits ==
    {i \in 1..Len(strategies) :
        /\ Canon(strategies[i]) \in {"exif", "json", "filename"}
        /\ Returned(Canon(strategies[i])).date # None}

LocationHits ==
    {i \in 1..Len(strategies) :
        /\ Canon(strategies[i]) \in {"exif", "json", "filename"}
        /\ Returned(Canon(strategies[i])).location # None}

\* C1: when process_one_file completes, the reconciled date is the date
\* returned by the earliest-listed recognized strategy that returned one, and
\* it is absent only if none did; the same, independently, for the location.
C1_Priority ==
    res.outcome = "done" =>
       /\ res.date = IF DateHits = {} THEN None
                     ELSE Returned(Canon(strategies[MinOf(DateHits)])).date
       /\ res.location =
             IF LocationHits = {} THEN None
             ELSE Returned(Canon(strategies[MinOf(LocationHits)])).location

\* three distinct strategies, the first-listed found no date, the two others
\* found different ones, and the second-listed one's date is the result
C1_Witness ==
    /\ res.outcome = "done"
    /\ Len(strategies) = 3
    /\ {Canon(strategies[i]) : i \in 1..3} = {"exif", "json", "filename"}
    /\ DateHits = {2, 3}
    /\ Returned(Canon(strategies[2])).date # Returned(Canon(strategies[3])).date
    /\ res.date = Returned(Canon(strategies[2])).date

SidecarMalformed(file) ==
    /\ file.sidecar.exists
    /\ \/ ~file.sidecar.decodable
       \/ file.sidecar.timestamp = None
       \/ file.sidecar.latitude = None
       \/ file.sidecar.longitude = None

\* a file with no metadata block: Image() fails on it, or opens a container
\* whose has_exif is false
LacksBlock(file) == ~file.bytes.ok \/ ~file.bytes.has_exif

\* C2 as claimed: a file that is not skipped and cannot be opened as a
\* metadata container (corrupt, wrong format, or lacking the metadata block)
\* is copied through: the bytes written are the input's bytes whatever the
\* other strategies found, and process_files goes on instead of aborting.
C2_PassThroughAsClaimed ==
    (Processed /\ res.outcome # "skipped" /\ LacksBlock(cur)) =>
       /\ res.outcome = "done"
       /\ res.written
       /\ res.bytes = Some(cur.bytes)
       /\ phase = "returned"

\* C2, amended: for a file that is not skipped and on which Image() raises
\* (corrupt or wrong format), no container is kept and, unless "json" is
\* requested and the file's sidecar is malformed, the bytes written are the
\* input's bytes whatever the other strategies found and process_files goes on;
\* with "json" requested and a malformed sidecar the error leaves
\* process_files and nothing is written.  A file that only lacks the metadata
\* block does open: with "exif" requested, when its processing completes the
\* bytes written are the container's serialization, which carries the date
\* the other strategies found.
C2_PassThrough ==
    (Processed /\ res.outcome # "skipped") =>
       /\ ~cur.bytes.ok =>
             /\ res.opens = 0
             /\ res.image = None
             /\ IF Requested("json") /\ SidecarMalformed(cur)
                THEN /\ res.outcome = "raised"
                     /\ ~res.written
                     /\ phase = "aborted"
                ELSE /\ res.outcome = "done"
                     /\ res.written
                     /\ res.bytes = Some(cur.bytes)
                     /\ phase = "returned"
       /\ (/\ cur.bytes.ok /\ ~cur.bytes.has_exif
           /\ Requested("exif") /\ res.outcome = "done") =>
             /\ res.opens >= 1
             /\ res.image # None
             /\ res.bytes = Some(get_file(res.image[1]))
             /\ res.date # None =>
                   /\ res.bytes[1].datetime # None
                   /\ res.bytes # Some(cur.bytes)

\* Image() raised on the file, another strategy found a date, the input's
\* bytes were written and process_files is still in its loop
C2_Witness ==
    /\ phase = "returned"
    /\ res.outcome = "done"
    /\ ~cur.bytes.ok
    /\ Requested("exif")
    /\ res.attempts >= 1
    /\ res.opens = 0
    /\ res.date # None
    /\ res.bytes = Some(cur.bytes)

BadDateField(file) ==
    /\ file.bytes.ok
    /\ file.bytes.has_exif
    /\ file.bytes.datetime # None
    /\ file.bytes.datetime[1].kind = "bad"

\* C3: a date field that parses neither as an integer nor with the textual
\* pattern makes get_info_from_exif return an absent date without raising, and
\* the file is written unless the sidecar extractor raises.
C3_BadDateTolerated ==
    (Processed /\ res.outcome # "skipped" /\ BadDateField(cur)) =>
       /\ \A k \in CallsOf("exif") :
             res.log[k].exc = "none" /\ res.log[k].date = None
       /\ ~(Requested("json") /\ SidecarMalformed(cur)) => res.written

\* C4: with "json" requested, a sidecar that exists and does not match the
\* schema fails the file with a propagated error and nothing is written;
\* without a sidecar the extractor returns (absent, absent) and raises nothing.
C4_SidecarHardFailure ==
    (Processed /\ res.outcome # "skipped" /\ Requested("json")) =>
       /\ SidecarMalformed(cur) =>
             /\ res.outcome = "raised"
             /\ phase = "aborted"
             /\ ~res.written
             /\ res.bytes = None
             /\ \A k \in CallsOf("json") : res.log[k].exc # "none"
       /\ ~cur.sidecar.exists =>
             \A k \in CallsOf("json") :
                /\ res.log[k].exc = "none"
                /\ res.log[k].date = None
                /\ res.log[k].location = None

\* the sidecar lacks a key, the json extractor raised and nothing was written
C4_Witness ==
    /\ phase = "aborted"
    /\ cur.sidecar.exists /\ cur.sidecar.decodable
    /\ CallsOf("json") # {}
    /\ res.log[Len(res.log)].strategy = "json"
    /\ res.log[Len(res.log)].exc = "KeyError"
    /\ ~res.written

EndsWith(name, ext) ==
    /\ Len(name) > 2
    /\ name[Len(name) - 1] = "."
    /\ name[Len(name)] = ext

NothingDone ==
    /\ res.outcome = "skipped"
    /\ ~res.written
    /\ res.bytes = None
    /\ res.utime = None
    /\ res.log = <<>>
    /\ res.attempts = 0

\* C5 as claimed: an entry that is not a regular file, whose name starts with
\* a dot, or whose extension is .json or .gif gets no output and no extractor.
C5_SkipRuleWithGif ==
    (Processed /\ (\/ cur.kind # "file"
                   \/ cur.name[1] = "."
                   \/ EndsWith(cur.name, "json")
                   \/ EndsWith(cur.name, "gif"))) => NothingDone

\* C5, amended: an entry that is not a regular file, whose name starts with a
\* dot, or whose extension is .json gets no output and no extractor, for every
\* strategy list; every other entry, a .gif file included, is processed.
C5_SkipRule ==
    Processed =>
       IF \/ cur.kind # "file"
          \/ cur.name[1] = "."
          \/ EndsWith(cur.name, "json")
       THEN NothingDone
       ELSE res.outcome # "skipped"

\* a sidecar file met while the json strategy is requested
C5_Witness ==
    /\ Processed
    /\ cur.kind = "file"
    /\ cur.name = <<"x", ".", "jpg", ".", "json">>
    /\ Requested("json")
    /\ res.outcome = "skipped"

\* C6: a file processed without error is always written, with the container's
\* serialization or else the input's bytes, and the destination's access and
\* modification times are set, both to the reconciled date, exactly when a
\* date was found, with or without a container.
C6_WriteAndTouch ==
    res.outcome = "done" =>
       /\ res.written
       /\ res.bytes = IF res.image # None THEN Some(get_file(res.image[1]))
                      ELSE Some(cur.bytes)
       /\ res.date = None <=> res.utime = None
       /\ res.date # None =>
             /\ res.utime[1].atime = res.utime[1].mtime
             /\ res.utime[1].mtime =
                   IF res.date[1].aware THEN res.date[1].wall
                   ELSE res.date[1].wall - TzOffsetSec * MsPerSec

\* the date comes from the file name alone, no container is open, and the
\* destination's times are set
C6_Witness ==
    /\ res.outcome = "done"
    /\ res.image = None
    /\ CallsOf("filename") # {}
    /\ CallsOf("json") = {}
    /\ res.date # None
    /\ res.utime # None

\* C7: get_info_from_json returns an absent location exactly for the pair
\* (0, 0); every other pair comes back in DMS form, one that converts back to
\* the pair; the date is returned either way, as the UTC time of the timestamp.
C7_ZeroSentinel ==
    \A k \in CallsOf("json") :
       (res.log[k].exc = "none" /\ cur.sidecar.exists) =>
          LET pair == <<cur.sidecar.latitude[1], cur.sidecar.longitude[1]>>
              call == res.log[k]
          IN  /\ call.location = None <=> pair = <<0, 0>>
              /\ call.location # None =>
                    /\ call.location[1] = coords_dec2dms(pair)
                    /\ coords_dms2dec(call.location[1]) = pair
              /\ call.date # None
              /\ call.date[1].aware
              /\ call.date[1].wall = cur.sidecar.timestamp[1] * MsPerSec

\* the sidecar holds (0, 0): a date and no location
C7_Witness ==
    \E k \in CallsOf("json") :
       /\ cur.sidecar.exists
       /\ cur.sidecar.latitude = Some(0) /\ cur.sidecar.longitude = Some(0)
       /\ res.log[k].exc = "none"
       /\ res.log[k].date # None
       /\ res.log[k].location = None

GpsOf(image) ==
    <<image.gps_latitude, image.gps_latitude_ref,
      image.gps_longitude, image.gps_longitude_ref>>

\* C9: when the container raises TypeError while the four GPS fields are set,
\* all four are as they were before, the date is set on the container, the
\* bytes are written and the times are set.
C9_NoPartialLocation ==
    (res.outcome = "done" /\ res.typeErrorAt # 0) =>
       /\ GpsOf(res.image[1]) = GpsOf(res.opened[1])
       /\ res.written
       /\ res.date # None =>
             /\ res.image[1].datetime # None
             /\ res.image[1].datetime[1].kind = "text"
             /\ res.utime # None

ExifCount ==
    Cardinality({i \in 1..Len(strategies) : Canon(strategies[i]) = "exif"})

\* C10 as claimed: for every strategy list the container is opened at most
\* once per file, and only when "exif" is requested; the writer's container
\* is the instance the exif extractor read.
C10_OpenedAtMostOnce ==
    Processed =>
       /\ res.opens <= 1
       /\ res.opens >= 1 => Requested("exif")
       /\ (res.outcome = "done" /\ res.image # None) =>
             /\ CallsOf("exif") # {}
             /\ res.log[MaxOf(CallsOf("exif"))].id = res.image[1].id

\* C10, amended: for every strategy list the container is opened at most once
\* for each occurrence of "exif" (in any letter case) in the list, and only
\* when "exif" is requested; the writer's container is the instance the exif
\* extractor read, the one opened last.
C10_OpenedPerOccurrence ==
    Processed =>
       /\ res.opens <= ExifCount
       /\ res.opens >= 1 => Requested("exif")
       /\ (res.outcome = "done" /\ res.image # None) =>
             /\ CallsOf("exif") # {}
             /\ res.log[MaxOf(CallsOf("exif"))].id = res.image[1].id
             /\ res.image[1].id = res.opens

\* "exif" listed twice, in two letter cases: two containers were opened, the
\* extractor read both and the writer was handed the second
C10_Witness ==
    /\ res.outcome = "done"
    /\ ExifCount = 2
    /\ \E i \in 1..Len(strategies) : strategies[i] = "EXIF"
    /\ \E i \in 1..Len(strategies) : strategies[i] = "exif"
    /\ res.opens = 2
    /\ Cardinality(CallsOf("exif")) = 2
    /\ res.image # None
    /\ res.image[1].id = 2

(***************************************************************************)
(* Properties of the converter                                             *)
(***************************************************************************)
DmsShape(x, c, pos, neg) ==
    LET rem == Abs(x) - c[1][1] * DEG IN
    /\ c[2] = IF x >= 0 THEN pos ELSE neg
    /\ c[1][1] >= 0
    /\ 0 <= rem /\ rem < DEG
    /\ c[1][2] \in 0..59
    \* the minutes are the integer part of the rounded product: the whole
    \* minutes of x, or one less where x is a whole number of minutes
    /\ c[1][2] * MIN <= rem
    /\ rem <= (c[1][2] + 1) * MIN
    /\ rem = (c[1][2] + 1) * MIN => MinuteLost(Abs(x))
    \* seconds in [0, 60): to the nearest tick they reach 60 only where the
    \* float is just under it
    /\ 0 <= c[1][3] /\ c[1][3] <= 60 * TicksPerSec
    /\ c[1][3] = rem - c[1][2] * MIN

\* C8: for a latitude in [-90, 90] and a longitude in [-180, 180],
\* coords_dms2dec(coords_dec2dms(x)) is x to within a tick; the letter is N/E
\* for a component >= 0 and S/W below 0, degrees and minutes are the integer
\* parts the code computes (of the magnitude, and of its remainder times 60
\* as a float), minutes are in 0..59 and seconds in [0, 60).
C8_RoundTrip ==
    /\ cpc \in {"dms", "back"} =>
          /\ DmsShape(cIn[1], cDms[1][1], "N", "S")
          /\ DmsShape(cIn[2], cDms[1][2], "E", "W")
    /\ cpc = "back" => cOut[1] = cIn

\* a southern latitude of 1 degree 1 minute, whose float product truncates to
\* 0 minutes and nearly 60 seconds, and a western longitude with 59 minutes
\* and some seconds, both converted back
C8_Witness ==
    /\ cpc = "back"
    /\ cIn[1] = -(DEG + MIN)
    /\ cDms[1][1] = <<<<1, 0, MIN>>, "S">>
    /\ cIn[2] < 0
    /\ cDms[1][2][1][2] = 59 /\ cDms[1][2][1][3] > 0
    /\ cOut[1] = cIn

====
